---- MODULE Spec2Model ----
(***************************************************************************)
(* ClawReader: the page compositor of the format converter                 *)
(* (createPdfWithCanvas in src/components/ConverterView.tsx), two          *)
(* compositor runs sharing the event loop, the PalmDOC decompressor and    *)
(* the MOBI parser (src/utils/mobiParser.ts) and the text extraction       *)
(* facade (src/utils/textExtractor.ts).  Each is a state machine with its  *)
(* own variables and its own specification; the variables of the other     *)
(* machines rest while one runs.                                           *)
(*                                                                         *)
(* Lengths are in hundredths of a point, so that the A4 geometry of the    *)
(* source (595.28 x 841.89 pt) stays integral: 841.89 pt is 84189.         *)
(* A string is a sequence of one-character strings.                        *)
(***************************************************************************)
EXTENDS Integers, Sequences, FiniteSets, TLC

VARIABLES
    text,        \* the text argument of createPdfWithCanvas
    ctxOk,       \* whether canvas.getContext('2d') returns a context
    pc,          \* position of the async function
    after,       \* where the function resumes after the await inside flushPage
    paragraphs,  \* text.split(/\r?\n/)
    i,           \* index of the for loop (0-based, as in the source)
    p,           \* the remaining text of the current paragraph
    cursorY,     \* vertical cursor
    pageIndex,   \* flushPage's page counter
    canvas,      \* what has been drawn on the canvas since it was last cleared
    doc,         \* the jsPDF document: a sequence of pages, each the images added to it
    progress,    \* the messages handed to onProgress, in order
    result,      \* "pending", "blob" (the promise resolved) or "error" (it rejected)
    stall,       \* consecutive lines drawn that consumed no character
    trace,       \* history of the run: draws, cursor advances, flushes, reports, yields
    \* two calls of createPdfWithCanvas on one event loop
    runs,        \* the local variables of each call
    canvases,    \* the canvas elements created so far, each with what is drawn on it
    solo,        \* each call run alone on the same input, step for step
    running,     \* the call that holds the thread, 0 when the event loop is idle
    switches,    \* how often the thread went from one call to the other
    \* one call of decompressPalmDOC
    data,        \* the bytes of the record
    pos,         \* the cursor p into data
    output,      \* the bytes emitted so far
    dpc,         \* "loop" while the while loop runs, "done" after the return
    last,        \* history: the opcode handled by the last step
    \* one call of parseMobi
    buffer,          \* the bytes of the file
    mpc,             \* position of the function
    numRecords,      \* the record count read at offset 76
    recordOffsets,   \* the offsets read from the record table
    compression,     \* the compression id of record 0
    textRecordCount, \* the text record count of record 0
    mi,              \* index i of the record loop
    allChunks,       \* the decoded chunks pushed so far
    totalLength,     \* the sum of their lengths
    finalBuffer,     \* the bytes handed to the text decoders
    mresult,         \* what the call returned or threw
    tried,           \* history: the text decoders tried, in order
    \* one call of extractBookText
    book,        \* the book argument: its format tag and its content
    limit,       \* the limit argument
    xpc,         \* position of the function
    fullText,    \* the extracted text
    xresult,     \* the string the promise resolved with
    thrown,      \* history: what was thrown inside the try block
    \* one call of handleConvert
    selected,       \* "none": no selectedBookId; "missing": no such book; "book"
    cbook,          \* the selected book: its format, its text, its MOBI bytes
    targetFormat,   \* "pdf" or "txt"
    cctx,           \* whether the canvas of createPdfWithCanvas gives a context
    cpc,            \* position of the function
    resultText,     \* what extractBookText resolved with
    cresult,        \* the result state: the file offered for download, if any
    alerts,         \* the messages shown by alert, in order
    isConverting,   \* the isConverting state
    statusMessage   \* the statusMessage state

composeVars == <<text, ctxOk, pc, after, paragraphs, i, p, cursorY, pageIndex,
                 canvas, doc, progress, result, stall, trace>>
duoVars == <<runs, canvases, solo, running, switches>>
palmVars == <<data, pos, output, dpc, last>>
mobiVars == <<buffer, mpc, numRecords, recordOffsets, compression,
              textRecordCount, mi, allChunks, totalLength, finalBuffer,
              mresult, tried>>
extractVars == <<book, limit, xpc, fullText, xresult, thrown>>
convertVars == <<selected, cbook, targetFormat, cctx, cpc, resultText, cresult,
                 alerts, isConverting, statusMessage>>

\* the variables of the machines other than the single compositor run
others == <<duoVars, palmVars, mobiVars, extractVars, convertVars>>

vars == <<composeVars, others>>

---------------------------------------------------------------------------
(* Bounds of the exploration *)

\* longest text enumerated character by character
MaxTextLen == 3
\* largest number of repetitions of a unit in a repeated text
MaxRepeat == 43
\* zero-length lines explored before a run that no longer advances is cut off
MaxStall == 2

---------------------------------------------------------------------------
(* Constants of createPdfWithCanvas *)

pageWidth == 59528
pageHeight == 84189
margin == 4000
lineHeight == 1800
titleGap == 5000
cadence == 20
printableWidth == pageWidth - (margin * 2)
halfLine == lineHeight \div 2

LF == "\n"
CR == "\r"
SP == " "
Whitespace == {SP, CR, LF}
Indent == <<SP, SP, SP, SP>>

---------------------------------------------------------------------------
(* The inputs *)

Alphabet == {"a", "W", "X", SP, LF, CR}
UnitChars == {"W", LF}

\* n copies of u, one after the other
Repeat(u, n) == [k \in 1..(n * Len(u)) |-> u[((k - 1) % Len(u)) + 1]]

ShortTexts == UNION {[1..n -> Alphabet] : n \in 0..MaxTextLen}
Units == UNION {[1..n -> UnitChars] : n \in 1..2}
RepeatedTexts == {Repeat(u, n) : u \in Units, n \in 1..MaxRepeat}
Texts == ShortTexts \cup RepeatedTexts

---------------------------------------------------------------------------
(* The measurement surface: ctx.measureText(s).width.  The advance of a    *)
(* string is the sum of the advances of its characters; "X" is a glyph     *)
(* wider than the printable width, "W" fits once and "a" twice per line.   *)

CharWidth(c) ==
    CASE c = "X" -> 60000
      [] c = "W" -> 30000
      [] c = "a" -> 20000
      [] c = SP  -> 5000
      [] OTHER   -> 0

RECURSIVE Advance(_, _, _)
Advance(s, lo, hi) ==
    IF lo > hi THEN 0
    ELSE IF lo = hi THEN CharWidth(s[lo])
    ELSE LET m == (lo + hi) \div 2 IN Advance(s, lo, m) + Advance(s, m + 1, hi)

measureText(s) == Advance(s, 1, Len(s))

---------------------------------------------------------------------------
(* String helpers of the JavaScript runtime *)

\* s.substring(a, b) for 0 <= a <= b <= s.length
substring(s, a, b) == SubSeq(s, a + 1, b)

\* s.substring(a)
substringFrom(s, a) == SubSeq(s, a + 1, Len(s))

\* text.split(/\r?\n/): the pieces between the line feeds; a piece that a
\* line feed ends loses the carriage return in front of that line feed
LineFeeds(s) == {k \in 1..Len(s) : s[k] = LF}

NthLineFeed(s, n) ==
    IF n = 0 THEN 0
    ELSE IF n > Cardinality(LineFeeds(s)) THEN Len(s) + 1
    ELSE CHOOSE k \in LineFeeds(s) :
             Cardinality({m \in LineFeeds(s) : m <= k}) = n

split(s) ==
    [n \in 1..(Cardinality(LineFeeds(s)) + 1) |->
        LET from == NthLineFeed(s, n - 1) + 1
            to == NthLineFeed(s, n) - 1
            cut == IF to < Len(s) /\ to >= from /\ s[to] = CR THEN to - 1 ELSE to
        IN  SubSeq(s, from, cut)]

\* s.trim()
trim(s) ==
    LET keep == {k \in 1..Len(s) : s[k] \notin Whitespace} IN
    IF keep = {} THEN <<>>
    ELSE SubSeq(s, CHOOSE k \in keep : \A m \in keep : k <= m,
                   CHOOSE k \in keep : \A m \in keep : m <= k)

---------------------------------------------------------------------------
(* getFitIndex: the binary search for the prefix that fits *)

\* a search that stops at the first prefix it finds to fit
RECURSIVE FitSearchFirstFit(_, _, _, _, _)
FitSearchFirstFit(textStr, maxWidth, min, max, res) ==
    IF min > max THEN res
    ELSE LET mid == (min + max) \div 2 IN
         IF mid = 0 THEN FitSearchFirstFit(textStr, maxWidth, 1, max, res)
         ELSE IF measureText(substring(textStr, 0, mid)) <= maxWidth
              THEN mid
              ELSE FitSearchFirstFit(textStr, maxWidth, min, mid - 1, res)

RECURSIVE FitSearch(_, _, _, _, _)
FitSearch(textStr, maxWidth, min, max, res) ==
    IF min > max THEN res
    ELSE LET mid == (min + max) \div 2 IN
         IF mid = 0 THEN FitSearch(textStr, maxWidth, 1, max, res)
         ELSE IF measureText(substring(textStr, 0, mid)) <= maxWidth
              THEN FitSearch(textStr, maxWidth, mid + 1, max, mid)
              ELSE FitSearch(textStr, maxWidth, min, mid - 1, res)

getFitIndex(textStr, maxWidth) ==
    IF measureText(textStr) <= maxWidth THEN Len(textStr)
    ELSE FitSearch(textStr, maxWidth, 0, Len(textStr), 0)

---------------------------------------------------------------------------
(* The jsPDF document and the canvas *)

\* doc.addPage()
addPage(d) == Append(d, <<>>)

\* doc.addImage(imgData, ...): the image goes on the current (last) page
addImage(d, img) == [d EXCEPT ![Len(d)] = Append(@, img)]

\* a flushPage that never adds a page
DocAfterFlushSamePage(d, idx, img) == addImage(d, img)

\* the two document calls of flushPage
DocAfterFlush(d, idx, img) == addImage(IF idx > 1 THEN addPage(d) ELSE d, img)

\* an overflow test that asks whether one more line still fits
OverflowsBeforeLine(y) == y + lineHeight > pageHeight - margin

\* an overflow test that never asks for a new page
OverflowsNever(y) == FALSE

\* the overflow test that follows every cursor advance
Overflows(y) == y > pageHeight - margin

\* ctx.fillText(s, margin, y)
fillText(cv, kind, s, y) == Append(cv, [kind |-> kind, s |-> s, y |-> y])

\* one entry of the history
Ev(e, s, y) == [ev |-> e, para |-> i, s |-> s, y |-> y]

PageMsg(n) == [kind |-> "page", n |-> n, of |-> 0]
ParaMsg(n, total) == [kind |-> "para", n |-> n, of |-> total]

---------------------------------------------------------------------------
(* A machine that is not the one running rests in these states *)

ComposeIdle ==
    /\ text = <<>>
    /\ ctxOk = FALSE
    /\ pc = "idle"
    /\ after = "none"
    /\ paragraphs = <<>>
    /\ i = 0
    /\ p = <<>>
    /\ cursorY = 0
    /\ pageIndex = 1
    /\ canvas = <<>>
    /\ doc = <<>>
    /\ progress = <<>>
    /\ result = "pending"
    /\ stall = 0
    /\ trace = <<>>

DuoIdle ==
    /\ runs = <<>>
    /\ canvases = <<>>
    /\ solo = <<>>
    /\ running = 0
    /\ switches = 0

NoOp == [op |-> "none", n |-> 0, d |-> 0, len |-> 0]

PalmIdle ==
    /\ data = <<>>
    /\ pos = 0
    /\ output = <<>>
    /\ dpc = "idle"
    /\ last = NoOp

NoResult == [kind |-> "none", err |-> "", by |-> "", bytes |-> <<>>]

MobiIdle ==
    /\ buffer = <<>>
    /\ mpc = "idle"
    /\ numRecords = 0
    /\ recordOffsets = <<>>
    /\ compression = 0
    /\ textRecordCount = 0
    /\ mi = 0
    /\ allChunks = <<>>
    /\ totalLength = 0
    /\ finalBuffer = <<>>
    /\ mresult = NoResult
    /\ tried = <<>>

NoLimit == [supplied |-> FALSE, value |-> 0]

Pending == [kind |-> "pending", text |-> <<>>]

ExtractIdle ==
    /\ book = [format |-> "", content |-> <<>>]
    /\ limit = NoLimit
    /\ xpc = "idle"
    /\ fullText = <<>>
    /\ xresult = Pending
    /\ thrown = "none"

NoFile == [offered |-> FALSE, ext |-> "", text |-> <<>>]

ConvertIdle ==
    /\ selected = "none"
    /\ cbook = [format |-> "", content |-> <<>>, buffer |-> <<>>]
    /\ targetFormat = "pdf"
    /\ cctx = TRUE
    /\ cpc = "idle"
    /\ resultText = <<>>
    /\ cresult = NoFile
    /\ alerts = <<>>
    /\ isConverting = FALSE
    /\ statusMessage = ""

---------------------------------------------------------------------------
(* The state machine *)

Init ==
    /\ text \in Texts
    /\ ctxOk \in BOOLEAN
    /\ pc = "start"
    /\ after = "none"
    /\ paragraphs = <<>>
    /\ i = 0
    /\ p = <<>>
    /\ cursorY = 0
    /\ pageIndex = 1
    /\ canvas = <<>>
    /\ doc = <<>>
    /\ progress = <<>>
    /\ result = "pending"
    /\ stall = 0
    /\ trace = <<>>
    /\ DuoIdle
    /\ PalmIdle
    /\ MobiIdle
    /\ ExtractIdle
    /\ ConvertIdle

\* a set-up that does not test the context
AcquireUnchecked ==
    /\ pc = "start"
    /\ ~ctxOk
    /\ doc' = << <<>> >>
    /\ canvas' = <<[kind |-> "title", s |-> <<>>, y |-> margin]>>
    /\ cursorY' = margin + titleGap
    /\ paragraphs' = <<text>>
    /\ i' = 0
    /\ trace' = <<[ev |-> "title", para |-> 0, s |-> <<>>, y |-> margin]>>
    /\ pc' = "for"
    /\ UNCHANGED <<others, text, ctxOk, after, p, pageIndex, progress, result, stall>>

\* getContext returned null: throw new Error("Canvas init failed")
AcquireFails ==
    /\ pc = "start"
    /\ ~ctxOk
    /\ doc' = << <<>> >>
    /\ result' = "error"
    /\ pc' = "failed"
    /\ UNCHANGED <<others, text, ctxOk, after, paragraphs, i, p, cursorY, pageIndex,
                   canvas, progress, stall, trace>>

\* set-up, clearCanvas, the title, the split into paragraphs
Begin ==
    /\ pc = "start"
    /\ ctxOk
    /\ doc' = << <<>> >>
    /\ canvas' = fillText(<<>>, "title", <<>>, margin)
    /\ cursorY' = margin + titleGap
    /\ paragraphs' = split(text)
    /\ i' = 0
    /\ trace' = <<Ev("title", <<>>, margin)>>
    /\ pc' = "for"
    /\ UNCHANGED <<others, text, ctxOk, after, p, pageIndex, progress, result, stall>>

\* flushPage() up to its await: the page image, the cleared canvas, the report
flushPage(cv, tr, cont) ==
    /\ doc' = DocAfterFlush(doc, pageIndex, cv)
    /\ canvas' = <<>>
    /\ pageIndex' = pageIndex + 1
    /\ progress' = Append(progress, PageMsg(pageIndex + 1))
    /\ trace' = tr \o <<Ev("flush", <<>>, 0), Ev("report", <<>>, 0)>>
    /\ after' = cont
    /\ pc' = "yieldFlush"

\* a cursor advance to y followed by the overflow test
AdvanceTo(cv, y, tr, cont) ==
    /\ cursorY' = y
    /\ IF Overflows(y)
       THEN flushPage(cv, tr, cont)
       ELSE /\ canvas' = cv
            /\ trace' = tr
            /\ pc' = cont
            /\ UNCHANGED <<doc, pageIndex, progress, after>>

\* the for loop has run through the paragraphs
LoopExit ==
    /\ pc = "for"
    /\ i >= Len(paragraphs)
    /\ pc' = "final"
    /\ UNCHANGED <<others, text, ctxOk, after, paragraphs, i, p, cursorY, pageIndex,
                   canvas, doc, progress, result, stall, trace>>

\* an empty paragraph: a blank line, the overflow test, continue
BlankParagraph ==
    /\ pc = "for"
    /\ i < Len(paragraphs)
    /\ trim(paragraphs[i + 1]) = <<>>
    /\ AdvanceTo(canvas, cursorY + lineHeight,
                 Append(trace, Ev("blank", <<>>, cursorY)), "incr")
    /\ p' = <<>>
    /\ UNCHANGED <<others, text, ctxOk, paragraphs, i, result, stall>>

\* a non-empty paragraph gets its indent
StartParagraph ==
    /\ pc = "for"
    /\ i < Len(paragraphs)
    /\ trim(paragraphs[i + 1]) # <<>>
    /\ p' = Indent \o trim(paragraphs[i + 1])
    /\ pc' = "while"
    /\ UNCHANGED <<others, text, ctxOk, after, paragraphs, i, cursorY, pageIndex,
                   canvas, doc, progress, result, stall, trace>>

\* a cut that is off by one
RestDropsOne(s, fitIdx) == substringFrom(s, fitIdx + 1)

\* what is left of the paragraph after a line of fitIdx characters
Rest(s, fitIdx) == substringFrom(s, fitIdx)

\* one round of the while loop: fit, draw, advance, cut, overflow test
DrawLine ==
    /\ pc = "while"
    /\ p # <<>>
    /\ stall < MaxStall
    /\ LET fitIdx == getFitIndex(p, printableWidth)
           lineToDraw == substring(p, 0, fitIdx)
       IN  /\ p' = Rest(p, fitIdx)
           /\ stall' = IF fitIdx = 0 THEN stall + 1 ELSE 0
           /\ AdvanceTo(fillText(canvas, "line", lineToDraw, cursorY),
                        cursorY + lineHeight,
                        Append(trace, Ev("draw", lineToDraw, cursorY)), "while")
    /\ UNCHANGED <<others, text, ctxOk, paragraphs, i, result>>

\* the paragraph is used up: half a line of space, the overflow test
ParagraphGap ==
    /\ pc = "while"
    /\ p = <<>>
    /\ AdvanceTo(canvas, cursorY + halfLine,
                 Append(trace, Ev("gap", <<>>, cursorY)), "cadence")
    /\ UNCHANGED <<others, text, ctxOk, paragraphs, i, p, result, stall>>

\* if (i % 20 === 0) { onProgress(...); await ... }
Cadence ==
    /\ pc = "cadence"
    /\ IF i % cadence = 0
       THEN /\ progress' = Append(progress, ParaMsg(i, Len(paragraphs)))
            /\ trace' = Append(trace, Ev("reportPara", <<>>, 0))
            /\ pc' = "yieldCadence"
       ELSE /\ pc' = "incr"
            /\ UNCHANGED <<progress, trace>>
    /\ UNCHANGED <<others, text, ctxOk, after, paragraphs, i, p, cursorY, pageIndex,
                   canvas, doc, result, stall>>

\* the timer of the paragraph cadence fired
ResumeCadence ==
    /\ pc = "yieldCadence"
    /\ trace' = Append(trace, Ev("yield", <<>>, 0))
    /\ pc' = "incr"
    /\ UNCHANGED <<others, text, ctxOk, after, paragraphs, i, p, cursorY, pageIndex,
                   canvas, doc, progress, result, stall>>

\* the timer of flushPage fired: flushPage returns, cursorY = margin
ResumeFlush ==
    /\ pc = "yieldFlush"
    /\ cursorY' = margin
    /\ trace' = Append(trace, Ev("yield", <<>>, 0))
    /\ pc' = after
    /\ after' = "none"
    /\ UNCHANGED <<others, text, ctxOk, paragraphs, i, p, pageIndex, canvas, doc,
                   progress, result, stall>>

\* i++ of the for loop
Incr ==
    /\ pc = "incr"
    /\ i' = i + 1
    /\ pc' = "for"
    /\ UNCHANGED <<others, text, ctxOk, after, paragraphs, p, cursorY, pageIndex,
                   canvas, doc, progress, result, stall, trace>>

\* a terminal flush that is skipped when nothing was drawn since the last flush
FinalFlushIfDrawn ==
    /\ pc = "final"
    /\ IF canvas = <<>>
       THEN UNCHANGED <<doc, trace>>
       ELSE /\ doc' = DocAfterFlush(doc, pageIndex, canvas)
            /\ trace' = Append(trace, Ev("flushLast", <<>>, 0))
    /\ result' = "blob"
    /\ pc' = "done"
    /\ UNCHANGED <<others, text, ctxOk, after, paragraphs, i, p, cursorY, pageIndex,
                   canvas, progress, stall>>

\* a terminal flush called as flushPage(), without isLast
FinalFlushReports ==
    /\ pc = "final"
    /\ doc' = DocAfterFlush(doc, pageIndex, canvas)
    /\ canvas' = <<>>
    /\ pageIndex' = pageIndex + 1
    /\ progress' = Append(progress, PageMsg(pageIndex + 1))
    /\ trace' = trace \o <<Ev("flushLast", <<>>, 0), Ev("report", <<>>, 0),
                            Ev("yield", <<>>, 0)>>
    /\ result' = "blob"
    /\ pc' = "done"
    /\ UNCHANGED <<others, text, ctxOk, after, paragraphs, i, p, cursorY, stall>>

\* await flushPage(true); return doc.output('blob')
FinalFlush ==
    /\ pc = "final"
    /\ doc' = DocAfterFlush(doc, pageIndex, canvas)
    /\ trace' = Append(trace, Ev("flushLast", <<>>, 0))
    /\ result' = "blob"
    /\ pc' = "done"
    /\ UNCHANGED <<others, text, ctxOk, after, paragraphs, i, p, cursorY, pageIndex,
                   canvas, progress, stall>>

Next ==
    \/ AcquireFails
    \/ Begin
    \/ LoopExit
    \/ BlankParagraph
    \/ StartParagraph
    \/ DrawLine
    \/ ParagraphGap
    \/ Cadence
    \/ ResumeCadence
    \/ ResumeFlush
    \/ Incr
    \/ FinalFlush

Spec == Init /\ [][Next]_vars

---------------------------------------------------------------------------
(* Reading the history *)

EvAt(e) == {k \in 1..Len(trace) : trace[k].ev = e}
NumFlushes == Cardinality(EvAt("flush"))
NumLines == Cardinality(EvAt("draw"))
IsLastEv(e) == trace # <<>> /\ trace[Len(trace)].ev = e

\* the members of a sequence of strings, one after the other
RECURSIVE Cat(_, _, _)
Cat(ss, lo, hi) ==
    IF lo > hi THEN <<>>
    ELSE IF lo = hi THEN ss[lo]
    ELSE LET m == (lo + hi) \div 2 IN Cat(ss, lo, m) \o Cat(ss, m + 1, hi)

\* the lines drawn for paragraph j, concatenated in the order they were drawn
LinesOf(tr, j) ==
    LET d == SelectSeq(tr, LAMBDA e : e.ev = "draw" /\ e.para = j)
    IN  Cat([k \in 1..Len(d) |-> d[k].s], 1, Len(d))

\* index of the last paragraph that reported at the cadence, -1 if none did
LastCadenceReport ==
    IF EvAt("reportPara") = {} THEN -1
    ELSE trace[CHOOSE k \in EvAt("reportPara") :
                 \A m \in EvAt("reportPara") : m <= k].para

\* the line images of a document, page after page
DocLines(d) ==
    Cat([k \in 1..Len(d) |->
            IF d[k] = <<>> THEN <<>>
            ELSE SelectSeq(d[k][1], LAMBDA it : it.kind = "line")], 1, Len(d))

\* the lines of the history, as fillText drew them
TraceLines(tr) ==
    LET d == SelectSeq(tr, LAMBDA e : e.ev = "draw")
    IN  [k \in 1..Len(d) |-> [kind |-> "line", s |-> d[k].s, y |-> d[k].y]]

IsPrefix(a, b) == Len(a) <= Len(b) /\ a = SubSeq(b, 1, Len(a))

---------------------------------------------------------------------------
(* C1: compose consumes every paragraph and reaches the terminal flush.   *)
(* Stated on finite runs: every round of the while loop shortens the      *)
(* remaining paragraph, the variant that makes the loop end.  A round     *)
(* that leaves p as it was repeats for ever, since getFitIndex reads      *)
(* nothing but p and the printable width.                                 *)
C1_EveryRoundConsumes ==
    [][(pc = "while" /\ p # <<>>) => Len(p') < Len(p)]_vars

(* C2: for a non-empty remaining text getFitIndex returns at least 1.     *)
C2_FitAtLeastOne ==
    (pc = "while" /\ p # <<>>) => getFitIndex(p, printableWidth) >= 1

(* C3: every body line or blank line placed at y lies in the printable    *)
(* area: margin <= y and y + lineHeight <= pageHeight - margin.           *)
C3_LinesInsidePrintableArea ==
    \A k \in EvAt("draw") \cup EvAt("blank") :
        /\ margin <= trace[k].y
        /\ trace[k].y + lineHeight <= pageHeight - margin

(* C4 as claimed: with k = floor((H - 2*margin)/L), a body of exactly k   *)
(* rendered lines gives no intermediate flush and one page, a body of     *)
(* k+1 lines gives two pages.                                             *)
C4_LinesPerPageAsClaimed ==
    LET k == (pageHeight - 2 * margin) \div lineHeight IN
    pc = "done" =>
        /\ NumLines = k => (NumFlushes = 0 /\ Len(doc) = 1)
        /\ NumLines = k + 1 => Len(doc) = 2

(* C4 amended: the title and its gap take 50 pt of the first page, so     *)
(* with k = floor((H - 2*margin - 50)/L) = 39 a text of one paragraph     *)
(* that gives exactly k rendered lines causes no intermediate flush and   *)
(* yields one page, and one that gives k+1 lines yields two pages.        *)
C4_LinesPerFirstPage ==
    LET k == (pageHeight - 2 * margin - titleGap) \div lineHeight IN
    (pc = "done" /\ Len(paragraphs) = 1) =>
        /\ NumLines = k => (NumFlushes = 0 /\ Len(doc) = 1)
        /\ NumLines = k + 1 => (NumFlushes = 1 /\ Len(doc) = 2)

C4_Witness ==
    /\ pc = "done"
    /\ Len(paragraphs) = 1
    /\ NumLines = (pageHeight - 2 * margin - titleGap) \div lineHeight
    /\ Len(doc) = 1

(* C5: when the text is consumed there is exactly one terminal flush,     *)
(* whatever the canvas holds; the document returned has at least one      *)
(* page, and as many pages as intermediate flushes plus one, each page    *)
(* holding one image.                                                     *)
C5_TerminalFlush ==
    /\ pc = "done" =>
        /\ Cardinality(EvAt("flushLast")) = 1
        /\ IsLastEv("flushLast")
        /\ Len(doc) >= 1
        /\ Len(doc) = NumFlushes + 1
        /\ \A k \in 1..Len(doc) : Len(doc[k]) = 1
    /\ pc # "done" => EvAt("flushLast") = {}
    /\ result = "blob" <=> pc = "done"

C5_Witness == pc = "done" /\ NumFlushes >= 1 /\ canvas = <<>>

(* C6: the document is append-only and in reading order.  A step either   *)
(* leaves the document alone or is a flush that puts the canvas image on  *)
(* one new page behind every page flushed before; a flushed page is       *)
(* never changed or removed; the lines of the pages, page after page,     *)
(* are the lines drawn so far, in the order they were drawn.              *)
C6_AppendOnly ==
    [][/\ Len(doc') >= Len(doc)
       /\ \A k \in 1..Len(doc) : doc[k] # <<>> => doc'[k] = doc[k]
       /\ (doc # <<>> /\ doc' # doc) =>
             /\ Len(trace') > Len(trace)
             /\ \E k \in (Len(trace) + 1)..Len(trace') :
                    trace'[k].ev \in {"flush", "flushLast"}
             /\ Len(doc') = Cardinality({k \in 1..Len(doc) : doc[k] # <<>>}) + 1
             /\ \A k \in 1..(Len(doc') - 1) : doc[k] # <<>>
             /\ Len(doc'[Len(doc')]) = 1
             /\ IsPrefix(canvas, doc'[Len(doc')][1])
       /\ IsPrefix(DocLines(doc'), TraceLines(trace'))
      ]_vars

C6_Witness ==
    /\ Len(doc) >= 2
    /\ doc[1] # <<>>
    /\ doc[2] # <<>>
    /\ pc = "while"
    /\ canvas # <<>>

(* C7: progress is reported, and the host yielded to, at a fixed          *)
(* paragraph cadence: no 20 paragraphs in a row, empty or not, are        *)
(* processed without a cadence report, and each such report is followed   *)
(* by a yield.                                                            *)
C7_CadenceEvery20 ==
    /\ pc = "for" => i - LastCadenceReport - 1 < cadence
    /\ \A k \in EvAt("reportPara") :
          k < Len(trace) => trace[k + 1].ev = "yield"

(* C8: compose is suspended at two kinds of places only, after an         *)
(* intermediate flush and after a paragraph at the cadence count.  An     *)
(* intermediate flush is followed at once by one report and one yield,    *)
(* before anything else is drawn; a yield has a report right before it;   *)
(* a cadence report belongs to a paragraph whose index is a multiple of   *)
(* 20 and follows that paragraph's trailing gap; the terminal flush is    *)
(* the last event, with no report and no yield.                           *)
C8_SuspensionPoints ==
    LET n == Len(trace) IN
    /\ \A k \in EvAt("yield") :
          k > 1 /\ trace[k - 1].ev \in {"report", "reportPara"}
    /\ \A k \in EvAt("flush") :
          /\ k < n
          /\ trace[k + 1].ev = "report"
          /\ k + 1 < n => trace[k + 2].ev = "yield"
    /\ \A k \in EvAt("report") : k > 1 /\ trace[k - 1].ev = "flush"
    /\ \A k \in EvAt("reportPara") :
          /\ k < n => trace[k + 1].ev = "yield"
          /\ trace[k].para % cadence = 0
          /\ \E g \in EvAt("gap") :
                /\ g < k
                /\ trace[g].para = trace[k].para
                /\ \A m \in (g + 1)..(k - 1) :
                      trace[m].ev \in {"flush", "report", "yield"}
    /\ \A k \in EvAt("flushLast") : k = n
    /\ pc = "yieldFlush" <=> IsLastEv("report")
    /\ pc = "yieldCadence" <=> IsLastEv("reportPara")
    /\ Cardinality(EvAt("report")) = NumFlushes
    /\ Len(progress) = NumFlushes + Cardinality(EvAt("reportPara"))

C8_Witness ==
    /\ pc = "done"
    /\ NumFlushes >= 1
    /\ Cardinality(EvAt("reportPara")) >= 2
    /\ Cardinality(EvAt("yield")) = NumFlushes + Cardinality(EvAt("reportPara"))

(* C9: no text is lost or duplicated.  While a paragraph is being drawn,  *)
(* the lines drawn for it so far followed by what remains of it are the   *)
(* four-space indent and the trimmed paragraph; when compose is done,     *)
(* the lines of every non-empty paragraph, one after the other, are its   *)
(* indent and trimmed text and an empty paragraph has no line; lines      *)
(* come in the order of the paragraphs, and the pages of the document     *)
(* hold exactly the lines drawn, in that order.                           *)
C9_NoTextLostOrDuplicated ==
    LET expected(j) == Indent \o trim(paragraphs[j + 1])
        blankPara(j) == trim(paragraphs[j + 1]) = <<>>
        draws == SelectSeq(trace, LAMBDA e : e.ev = "draw")
    IN
    /\ (pc \notin {"start", "failed"} /\ i < Len(paragraphs)) =>
          IF pc = "for" \/ blankPara(i)
          THEN LinesOf(trace, i) = <<>>
          ELSE LinesOf(trace, i) \o p = expected(i)
    /\ pc = "done" =>
          /\ \A j \in 0..(Len(paragraphs) - 1) :
                IF blankPara(j)
                THEN \A k \in EvAt("draw") : trace[k].para # j
                ELSE LinesOf(trace, j) = expected(j)
          /\ DocLines(doc) = TraceLines(trace)
    /\ \A k \in 1..(Len(draws) - 1) : draws[k].para <= draws[k + 1].para
    /\ \A k \in EvAt("draw") : trace[k].para < Len(paragraphs)

C9_Witness ==
    /\ pc = "done"
    /\ \E a, b \in EvAt("draw") : \E f \in EvAt("flush") :
          a < f /\ f < b /\ trace[a].para = trace[b].para

(* C10: when the 2D context cannot be had, compose fails before any page  *)
(* is flushed and before any progress callback, and returns no document.  *)
C10_FailsBeforeAnyOutput ==
    /\ ~ctxOk =>
          /\ pc \in {"start", "failed"}
          /\ progress = <<>>
          /\ trace = <<>>
          /\ \A k \in 1..Len(doc) : doc[k] = <<>>
          /\ result # "blob"
    /\ pc = "failed" => (~ctxOk /\ result = "error")

C10_Witness == pc = "failed" /\ result = "error" /\ text # <<>>

---------------------------------------------------------------------------
(* Two calls of createPdfWithCanvas on one event loop.  A call keeps the  *)
(* thread from its start, or from the timer that resumes it, to its next  *)
(* await of a timer or its end; only then can the other call run.  The    *)
(* locals of a call are a record; the canvas elements live in the         *)
(* document, and a call holds the one it created.                         *)

\* largest number of repetitions in the texts of the two calls
MaxDuoRepeat == 41

DuoTexts ==
    {<<>>, <<"a", "a", "a">>, <<"W", LF, "W">>,
     Repeat(<<"W">>, MaxDuoRepeat), Repeat(<<LF, "W">>, MaxDuoRepeat)}

Runs == {1, 2}

NewRun(t, ok) ==
    [text |-> t, ctxOk |-> ok, pc |-> "start", after |-> "none",
     paragraphs |-> <<>>, i |-> 0, p |-> <<>>, cursorY |-> 0, pageIndex |-> 1,
     doc |-> <<>>, progress |-> <<>>, result |-> "pending", cv |-> 0]

\* flushPage() up to its await, on the locals st and the canvas content cv
FlushRun(st, cv, cont) ==
    [st |-> [st EXCEPT !.doc = DocAfterFlush(st.doc, st.pageIndex, cv),
                       !.pageIndex = st.pageIndex + 1,
                       !.progress = Append(st.progress, PageMsg(st.pageIndex + 1)),
                       !.after = cont,
                       !.pc = "yieldFlush"],
     cv |-> <<>>]

\* a cursor advance to y followed by the overflow test
AdvanceRun(st, cv, y, cont) ==
    IF Overflows(y)
    THEN FlushRun([st EXCEPT !.cursorY = y], cv, cont)
    ELSE [st |-> [st EXCEPT !.cursorY = y, !.pc = cont], cv |-> cv]

\* one step of a call: its locals st and the content cv of its canvas
RunStep(st, cv) ==
    CASE st.pc = "start" ->
           IF ~st.ctxOk
           THEN [st |-> [st EXCEPT !.doc = << <<>> >>, !.result = "error",
                                   !.pc = "failed"],
                 cv |-> cv]
           ELSE [st |-> [st EXCEPT !.doc = << <<>> >>,
                                   !.cursorY = margin + titleGap,
                                   !.paragraphs = split(st.text),
                                   !.i = 0,
                                   !.pc = "for"],
                 cv |-> fillText(<<>>, "title", <<>>, margin)]
      [] st.pc = "for" ->
           IF st.i >= Len(st.paragraphs)
           THEN [st |-> [st EXCEPT !.pc = "final"], cv |-> cv]
           ELSE IF trim(st.paragraphs[st.i + 1]) = <<>>
           THEN AdvanceRun([st EXCEPT !.p = <<>>], cv,
                           st.cursorY + lineHeight, "incr")
           ELSE [st |-> [st EXCEPT !.p = Indent \o trim(st.paragraphs[st.i + 1]),
                                   !.pc = "while"],
                 cv |-> cv]
      [] st.pc = "while" ->
           IF st.p = <<>>
           THEN AdvanceRun(st, cv, st.cursorY + halfLine, "cadence")
           ELSE LET fitIdx == getFitIndex(st.p, printableWidth)
                    lineToDraw == substring(st.p, 0, fitIdx)
                IN  AdvanceRun([st EXCEPT !.p = Rest(st.p, fitIdx)],
                               fillText(cv, "line", lineToDraw, st.cursorY),
                               st.cursorY + lineHeight, "while")
      [] st.pc = "cadence" ->
           IF st.i % cadence = 0
           THEN [st |-> [st EXCEPT
                           !.progress = Append(st.progress,
                                               ParaMsg(st.i, Len(st.paragraphs))),
                           !.pc = "yieldCadence"],
                 cv |-> cv]
           ELSE [st |-> [st EXCEPT !.pc = "incr"], cv |-> cv]
      [] st.pc = "yieldCadence" ->
           [st |-> [st EXCEPT !.pc = "incr"], cv |-> cv]
      [] st.pc = "yieldFlush" ->
           [st |-> [st EXCEPT !.cursorY = margin, !.pc = st.after,
                              !.after = "none"],
            cv |-> cv]
      [] st.pc = "incr" ->
           [st |-> [st EXCEPT !.i = st.i + 1, !.pc = "for"], cv |-> cv]
      [] st.pc = "final" ->
           [st |-> [st EXCEPT !.doc = DocAfterFlush(st.doc, st.pageIndex, cv),
                              !.result = "blob", !.pc = "done"],
            cv |-> cv]

\* where a call gives the thread back: awaiting a timer, or at its end
Suspended(st) == st.pc \in {"yieldFlush", "yieldCadence", "done", "failed"}
Ended(st) == st.pc \in {"done", "failed"}

\* a canvas kept in one place and handed to every call
CanvasShared(cvs) == 1

\* document.createElement('canvas'): the element a call gets is a new one
CanvasFor(cvs) == Len(cvs) + 1

DuoInit ==
    /\ ComposeIdle
    /\ runs \in [Runs -> {NewRun(t, ok) : t \in DuoTexts, ok \in BOOLEAN}]
    /\ canvases = <<>>
    /\ solo = [r \in Runs |-> [st |-> runs[r], cv |-> <<>>]]
    /\ running = 0
    /\ switches = 0
    /\ PalmIdle
    /\ MobiIdle
    /\ ExtractIdle
    /\ ConvertIdle

\* the call r takes its next step on the thread
DuoStep(r) ==
    /\ ~Ended(runs[r])
    /\ \/ running = r
       \/ running = 0 /\ (runs[r].pc = "start" \/ Suspended(runs[r]))
    /\ LET id == IF runs[r].pc = "start" THEN CanvasFor(canvases)
                 ELSE runs[r].cv
           heap == IF id > Len(canvases) THEN Append(canvases, <<>>)
                   ELSE canvases
           out == RunStep([runs[r] EXCEPT !.cv = id], heap[id])
           alone == RunStep([solo[r].st EXCEPT !.cv = id], solo[r].cv)
       IN  /\ runs' = [runs EXCEPT ![r] = out.st]
           /\ canvases' = [heap EXCEPT ![id] = out.cv]
           /\ solo' = [solo EXCEPT ![r] = alone]
           /\ running' = IF Suspended(out.st) THEN 0 ELSE r
           /\ switches' = IF running = 0 /\ runs[r].pc # "start"
                             /\ \E o \in Runs \ {r} :
                                   runs[o].pc \notin {"start", "done", "failed"}
                          THEN switches + 1 ELSE switches
    /\ UNCHANGED <<composeVars, palmVars, mobiVars, extractVars, convertVars>>

DuoNext == \E r \in Runs : DuoStep(r)

SpecDuo == DuoInit /\ [][DuoNext]_vars

(* C11: two compose runs whose steps interleave at their yields do not    *)
(* affect each other.  At every moment the cursor, the page index, the    *)
(* document and the canvas of a run are those of the same run made alone  *)
(* on the same input, and so is the document it returns.                  *)
C11_RunsIndependent ==
    \A r \in Runs :
        /\ runs[r] = solo[r].st
        /\ runs[r].cv # 0 => canvases[runs[r].cv] = solo[r].cv
        /\ \A o \in Runs \ {r} : runs[r].cv # 0 => runs[o].cv # runs[r].cv

C11_Witness ==
    /\ \A r \in Runs : runs[r].pc = "done" /\ Len(runs[r].doc) >= 2
    /\ switches >= 2
    /\ runs[1].doc # runs[2].doc

---------------------------------------------------------------------------
(* decompressPalmDOC (src/utils/mobiParser.ts).  A byte is a number in    *)
(* 0..255; data[p] of the source is data[p + 1] here.                     *)

\* longest record enumerated byte by byte
MaxRecLen == 4

\* the bytes the records are made of: a literal 0 (distance 0 as a second
\* byte), runs of 3 and of 8 (8: distance 1, length 3 as a second byte),
\* a space (distance 4, length 3), "A", the back-reference leads 0x80 and
\* 0xBF, and the pair byte 0xC1
PalmBytes == {0, 3, 8, 32, 65, 128, 191, 193}

\* the two records of the codec's tests: "abcd" copied back, and "XYZ"
BackRefExample == <<4, 97, 98, 99, 100, 128, 32>>
LiteralRunExample == <<3, 88, 89, 90>>

PalmInputs ==
    UNION {[1..n -> PalmBytes] : n \in 0..MaxRecLen}
        \cup {BackRefExample, LiteralRunExample}

\* byte ^ 0x80
Xor80(byte) == IF byte >= 128 THEN byte - 128 ELSE byte + 128

\* ((byte & 0x3F) << 5) | (nextByte >> 3)
BackDistance(byte, nextByte) == ((byte % 64) * 32) + (nextByte \div 8)

\* a length without its bias of 3
BackLengthNoBias(nextByte) == nextByte % 8

\* (nextByte & 0x07) + 3
BackLength(nextByte) == (nextByte % 8) + 3

\* a literal run that does not test the end of the record
RECURSIVE CopyLiteralUnchecked(_, _, _, _)
CopyLiteralUnchecked(d, q, out, n) ==
    IF n = 0 THEN [p |-> q, output |-> out]
    ELSE CopyLiteralUnchecked(d, q + 1,
                              Append(out, IF q < Len(d) THEN d[q + 1] ELSE 0),
                              n - 1)

\* for (i < byte) if (p < data.length) output.push(data[p++])
RECURSIVE CopyLiteral(_, _, _, _)
CopyLiteral(d, q, out, n) ==
    IF n = 0 THEN [p |-> q, output |-> out]
    ELSE IF q < Len(d) THEN CopyLiteral(d, q + 1, Append(out, d[q + 1]), n - 1)
    ELSE CopyLiteral(d, q, out, n - 1)

\* a copy that does not test the source index: what lies outside reads as
\* undefined, which the Uint8Array stores as 0
RECURSIVE CopyBackUnchecked(_, _, _, _)
CopyBackUnchecked(out, src, k, length) ==
    IF k >= length THEN out
    ELSE CopyBackUnchecked(
             Append(out, IF src + k >= 0 /\ src + k < Len(out)
                         THEN out[src + k + 1] ELSE 0),
             src, k + 1, length)

\* for (i < length) if (0 <= src + i < output.length) output.push(output[src + i])
RECURSIVE CopyBack(_, _, _, _)
CopyBack(out, src, k, length) ==
    IF k >= length THEN out
    ELSE IF src + k >= 0 /\ src + k < Len(out)
    THEN CopyBack(Append(out, out[src + k + 1]), src, k + 1, length)
    ELSE CopyBack(out, src, k + 1, length)

\* which branch of the loop body the byte at the cursor takes
PalmOp(d, q) ==
    IF q >= Len(d) THEN "return"
    ELSE LET byte == d[q + 1] IN
         IF byte >= 1 /\ byte <= 8 THEN "run"
         ELSE IF byte < 128 THEN "lit"
         ELSE IF byte >= 192 THEN "pair"
         ELSE IF q + 1 >= Len(d) THEN "cut"
         ELSE "back"

\* a lead byte at the end of the record that leaves a byte in the output
CutShortEmits(q, out) == [p |-> q + 1, output |-> Append(out, 0), done |-> TRUE]

\* line 111: the lead byte of a back-reference is the last byte of the
\* record; the loop is left with the output as it is
CutShort(q, out) == [p |-> q + 1, output |-> out, done |-> TRUE]

\* one round of the while loop, from cursor q and output out
PalmStep(d, q, out) ==
    LET op == PalmOp(d, q)
        byte == d[q + 1]
        nextByte == d[q + 2]
    IN  CASE op = "return" -> [p |-> q, output |-> out, done |-> TRUE]
          [] op = "run" ->
               LET c == CopyLiteral(d, q + 1, out, byte)
               IN  [p |-> c.p, output |-> c.output, done |-> FALSE]
          [] op = "lit" ->
               [p |-> q + 1, output |-> Append(out, byte), done |-> FALSE]
          [] op = "pair" ->
               [p |-> q + 1, output |-> out \o <<32, Xor80(byte)>>,
                done |-> FALSE]
          [] op = "cut" -> CutShort(q, out)
          [] op = "back" ->
               [p |-> q + 2,
                output |-> CopyBack(out, Len(out) - BackDistance(byte, nextByte),
                                    0, BackLength(nextByte)),
                done |-> FALSE]

\* the whole call
RECURSIVE PalmLoop(_, _, _)
PalmLoop(d, q, out) ==
    LET st == PalmStep(d, q, out)
    IN  IF st.done THEN st.output ELSE PalmLoop(d, st.p, st.output)

decompressPalmDOC(d) == PalmLoop(d, 0, <<>>)

PalmInit ==
    /\ ComposeIdle
    /\ DuoIdle
    /\ MobiIdle
    /\ ExtractIdle
    /\ ConvertIdle
    /\ data \in PalmInputs
    /\ pos = 0
    /\ output = <<>>
    /\ dpc = "loop"
    /\ last = NoOp

\* one round of the while loop that takes the branch op
PalmRound(op) ==
    /\ dpc = "loop"
    /\ PalmOp(data, pos) = op
    /\ LET st == PalmStep(data, pos, output)
       IN  /\ pos' = st.p
           /\ output' = st.output
           /\ dpc' = IF st.done THEN "done" ELSE "loop"
           /\ last' = [op |-> op, n |-> Len(output),
                       d |-> IF op = "back"
                             THEN BackDistance(data[pos + 1], data[pos + 2])
                             ELSE 0,
                       len |-> IF op = "back" THEN BackLength(data[pos + 2])
                               ELSE IF op = "run" THEN data[pos + 1] ELSE 0]
    /\ UNCHANGED <<composeVars, duoVars, mobiVars, extractVars, convertVars, data>>

PalmLiteralRun == PalmRound("run")
PalmLiteral == PalmRound("lit")
PalmSpacePair == PalmRound("pair")
PalmBackRef == PalmRound("back")
PalmBackRefCut == PalmRound("cut")
PalmReturn == PalmRound("return")

PalmNext ==
    \/ PalmLiteralRun
    \/ PalmLiteral
    \/ PalmSpacePair
    \/ PalmBackRef
    \/ PalmBackRefCut
    \/ PalmReturn

SpecPalm == PalmInit /\ [][PalmNext]_vars

\* the cursor stands on a back-reference whose second byte is in the record
AtBackRef ==
    /\ dpc = "loop"
    /\ pos + 1 < Len(data)
    /\ data[pos + 1] >= 128
    /\ data[pos + 1] <= 191

(* C12: a back-reference with distance d = ((byte & 0x3F) << 5) |         *)
(* (nextByte >> 3) and length l = (nextByte & 0x07) + 3, where            *)
(* 1 <= d <= output length n, appends exactly l bytes, the j-th of which  *)
(* (from 0) is the byte at index n - d + j of the output as it grows;     *)
(* the record 04 'a' 'b' 'c' 'd' 80 20 decodes to "abcdabc".              *)
C12_BackReference ==
    [][/\ AtBackRef =>
            LET byte == data[pos + 1]
                nextByte == data[pos + 2]
                d == ((byte % 64) * 32) + (nextByte \div 8)
                l == (nextByte % 8) + 3
                n == Len(output)
            IN  (1 <= d /\ d <= n) =>
                   /\ Len(output') = n + l
                   /\ SubSeq(output', 1, n) = output
                   /\ \A j \in 0..(l - 1) :
                         output'[n + j + 1] = output'[n - d + j + 1]
                   /\ pos' = pos + 2
       /\ (data = BackRefExample /\ dpc' = "done") =>
            output' = <<97, 98, 99, 100, 97, 98, 99>>
      ]_vars

\* a copy whose distance is smaller than its length has replayed its own bytes
C12_Witness ==
    /\ last.op = "back"
    /\ 1 <= last.d
    /\ last.d <= last.n
    /\ last.d < last.len
    /\ Len(output) = last.n + last.len

(* C13: decompressPalmDOC fails on no input and reads nothing outside     *)
(* the output emitted so far.  In a back-reference of distance 0, or of   *)
(* a distance beyond the output length n, the source indices outside the  *)
(* output give no byte: the first d - n of them are skipped when d > n,   *)
(* all of them when d = 0 or n = 0; what is appended is read from the     *)
(* output, and decoding goes on with the next opcode.                     *)
C13_OutOfRangeSkipped ==
    [][/\ AtBackRef =>
            LET byte == data[pos + 1]
                nextByte == data[pos + 2]
                d == ((byte % 64) * 32) + (nextByte \div 8)
                l == (nextByte % 8) + 3
                n == Len(output)
                k == IF d = 0 \/ n = 0 \/ d - n >= l THEN 0 ELSE l - (d - n)
            IN  (d = 0 \/ d > n) =>
                   /\ Len(output') = n + k
                   /\ SubSeq(output', 1, n) = output
                   /\ \A m \in 1..k : output'[n + m] = output'[m]
                   /\ pos' = pos + 2
                   /\ dpc' = "loop"
       /\ dpc' \in {"loop", "done"}
       /\ pos' <= Len(data)
      ]_vars

\* a distance beyond the output whose last source indices are inside it
C13_Witness ==
    /\ last.op = "back"
    /\ last.d > last.n
    /\ Len(output) > last.n
    /\ Len(output) < last.n + last.len
    /\ dpc = "loop"

(* C14: a control byte n in 0x01..0x08 copies the next min(n, bytes left  *)
(* in the record) bytes to the output as they are, none of them read as   *)
(* an opcode, and ends without error when the record runs out first;      *)
(* 03 58 59 5A decodes to "XYZ".                                          *)
C14_LiteralRun ==
    [][/\ (dpc = "loop" /\ pos < Len(data)
             /\ data[pos + 1] >= 1 /\ data[pos + 1] <= 8) =>
            LET n == data[pos + 1]
                left == Len(data) - (pos + 1)
                k == IF n <= left THEN n ELSE left
            IN  /\ output' = output \o SubSeq(data, pos + 2, pos + 1 + k)
                /\ pos' = pos + 1 + k
                /\ dpc' = "loop"
       /\ (data = LiteralRunExample /\ dpc' = "done") => output' = <<88, 89, 90>>
      ]_vars

\* a run cut short by the end of the record that copied a back-reference lead
C14_Witness ==
    /\ last.op = "run"
    /\ Len(output) - last.n < last.len
    /\ Len(output) > last.n
    /\ output[Len(output)] = 128
    /\ pos = Len(data)

---------------------------------------------------------------------------
(* parseMobi (src/utils/mobiParser.ts).  The file is a sequence of bytes; *)
(* offset k of the source is index k + 1 here.  All reads are big-endian. *)

\* most text records in the files built below
MaxMobiRecs == 2

U16(n) == <<(n \div 256) % 256, n % 256>>
U32(n) == U16(n \div 65536) \o U16(n % 65536)
Zeros(n) == [k \in 1..n |-> 0]

\* a DataView read of n bytes at off is inside the buffer; outside it throws
\* a RangeError
Readable(buf, off, n) == off + n <= Len(buf)
getUint16(buf, off) == (buf[off + 1] * 256) + buf[off + 2]
getUint32(buf, off) == (getUint16(buf, off) * 65536) + getUint16(buf, off + 2)

\* lines 8-23: the record count, the record table and the two fields of
\* record 0.  With no record, recordOffsets[0] is undefined and both fields
\* are read at offset 0.
ReadHeader(buf) ==
    LET nr == getUint16(buf, 76)
        okTable == nr = 0 \/ Readable(buf, 78 + ((nr - 1) * 8), 4)
        offs == [k \in 1..nr |-> getUint32(buf, 78 + ((k - 1) * 8))]
        headerOffset == IF nr = 0 THEN 0 ELSE offs[1]
        countOffset == IF nr = 0 THEN 0 ELSE offs[1] + 8
    IN  IF Readable(buf, 76, 2) /\ okTable
           /\ Readable(buf, headerOffset, 2) /\ Readable(buf, countOffset, 2)
        THEN [ok |-> TRUE, numRecords |-> nr, recordOffsets |-> offs,
              compression |-> getUint16(buf, headerOffset),
              textRecordCount |-> getUint16(buf, countOffset)]
        ELSE [ok |-> FALSE, numRecords |-> 0, recordOffsets |-> <<>>,
              compression |-> 0, textRecordCount |-> 0]

\* a test that lets every declared count pass
CountNeverExceeds(trc, nr) == FALSE

\* textRecordCount > numRecords
CountExceeds(trc, nr) == trc > nr

\* the slice of record k: recordOffsets[k] to recordOffsets[k + 1], or to
\* the end of the buffer for the last record of the table
SliceStart(offs, k) == offs[k + 1]
SliceEnd(buf, offs, k) == IF k + 1 < Len(offs) THEN offs[k + 2] ELSE Len(buf)

\* line 40: the record is passed over
Skipped(buf, offs, k) ==
    \/ SliceStart(offs, k) >= Len(buf)
    \/ SliceEnd(buf, offs, k) > Len(buf)
    \/ SliceEnd(buf, offs, k) <= SliceStart(offs, k)

\* new Uint8Array(buffer.slice(start, end))
Slice(buf, offs, k) == SubSeq(buf, SliceStart(offs, k) + 1, SliceEnd(buf, offs, k))

\* every chunk taken for PalmDOC
DecodeChunkAlwaysPalm(comp, chunk) == decompressPalmDOC(chunk)

\* lines 45-50, for compression 1 or 2
DecodeChunk(comp, chunk) == IF comp = 2 THEN decompressPalmDOC(chunk) ELSE chunk

\* a push at the wrong end
PushChunkFront(chunks, c) == <<c>> \o chunks

\* allChunks.push(decodedChunk)
PushChunk(chunks, c) == Append(chunks, c)

\* TextDecoder('utf-8', {fatal: true}) accepts the bytes: the UTF-8 decoder
\* of the Encoding Standard, with `needed` continuation bytes outstanding,
\* the next of them between lower and upper
RECURSIVE Utf8From(_, _, _, _, _)
Utf8From(b, k, needed, lower, upper) ==
    IF k > Len(b) THEN needed = 0
    ELSE LET x == b[k] IN
         IF needed = 0
         THEN IF x <= 127 THEN Utf8From(b, k + 1, 0, 128, 191)
              ELSE IF x >= 194 /\ x <= 223 THEN Utf8From(b, k + 1, 1, 128, 191)
              ELSE IF x >= 224 /\ x <= 239
              THEN Utf8From(b, k + 1, 2, IF x = 224 THEN 160 ELSE 128,
                            IF x = 237 THEN 159 ELSE 191)
              ELSE IF x >= 240 /\ x <= 244
              THEN Utf8From(b, k + 1, 3, IF x = 240 THEN 144 ELSE 128,
                            IF x = 244 THEN 143 ELSE 191)
              ELSE FALSE
         ELSE IF x < lower \/ x > upper THEN FALSE
         ELSE Utf8From(b, k + 1, needed - 1, 128, 191)

Utf8Valid(b) == Utf8From(b, 1, 0, 128, 191)

\* TextDecoder('gbk', {fatal: true}) accepts the bytes: the gb18030 decoder
\* of the Encoding Standard, which the label gbk selects
RECURSIVE GbkFrom(_, _)
GbkFrom(b, k) ==
    IF k > Len(b) THEN TRUE
    ELSE LET x == b[k] IN
         IF x <= 128 THEN GbkFrom(b, k + 1)
         ELSE IF x = 255 \/ k + 1 > Len(b) THEN FALSE
         ELSE LET y == b[k + 1] IN
              IF y >= 48 /\ y <= 57
              THEN /\ k + 3 <= Len(b)
                   /\ b[k + 2] >= 129 /\ b[k + 2] <= 254
                   /\ b[k + 3] >= 48 /\ b[k + 3] <= 57
                   /\ LET pointer == ((x - 129) * 12600) + ((y - 48) * 1260)
                                       + ((b[k + 2] - 129) * 10) + (b[k + 3] - 48)
                      IN  ~ ((pointer > 39419 /\ pointer < 189000)
                               \/ pointer > 1237575)
                   /\ GbkFrom(b, k + 4)
              ELSE IF (y >= 64 /\ y <= 126) \/ (y >= 128 /\ y <= 254)
              THEN GbkFrom(b, k + 2)
              ELSE FALSE

GbkValid(b) == GbkFrom(b, 1)

\* the decoder decodes the bytes without throwing
Accepts(dec, b) ==
    CASE dec = "utf-8" -> Utf8Valid(b)
      [] dec = "gbk" -> GbkValid(b)
      [] dec = "utf-8-lossy" -> TRUE

\* a cascade without its middle step
NextDecoderSkipsGbk(dec) == "utf-8-lossy"

\* the catch blocks of lines 76-83: what is tried when dec has thrown
NextDecoder(dec) == IF dec = "utf-8" THEN "gbk" ELSE "utf-8-lossy"

Decoders == {"utf-8", "gbk", "utf-8-lossy"}

\* the record payloads: "A"; "A" and a copy of length 3 from distance 2,
\* one byte before the record's own output; "zhong" in GBK, which is not
\* UTF-8; a byte no encoding accepts; "e acute" in UTF-8; a literal run cut
\* short by the end of the record
MobiPayloads ==
    {<<65>>, <<65, 128, 16>>, <<214, 208>>, <<255>>, <<195, 169>>, <<3, 65>>}

MobiRecordLists == UNION {[1..n -> MobiPayloads] : n \in 0..MaxMobiRecs}

\* uncompressed, PalmDOC, and HUFF/CDIC
MobiCompressions == {1, 2, 17480}

\* bytes missing at the end of the file
MobiCuts == {0, 1, 3}

\* a file of 1 + Len(recs) records: the 78 bytes up to the record count,
\* the record table, record 0 (10 bytes: compression at 0, the text record
\* count at 8) and the text records
Container(comp, trc, recs) ==
    LET n == Len(recs) + 1
        first == 78 + (8 * n)
        off(k) == IF k = 0 THEN first
                  ELSE first + 10 + Len(Cat(recs, 1, k - 1))
        table == [k \in 1..n |-> U32(off(k - 1)) \o <<0, 0, 0, 0>>]
    IN  Zeros(76) \o U16(n) \o Cat(table, 1, n)
          \o U16(comp) \o Zeros(6) \o U16(trc) \o Cat(recs, 1, Len(recs))

MobiFiles ==
    {SubSeq(Container(comp, trc, recs), 1,
            Len(Container(comp, trc, recs)) - cut) :
        comp \in MobiCompressions, trc \in 0..(MaxMobiRecs + 2),
        recs \in MobiRecordLists, cut \in MobiCuts}
      \cup {Zeros(78), Zeros(40), <<>>,
            SubSeq(Container(1, 1, <<<<65>>>>), 1, 90)}

MobiInit ==
    /\ ComposeIdle
    /\ DuoIdle
    /\ PalmIdle
    /\ ExtractIdle
    /\ ConvertIdle
    /\ buffer \in MobiFiles
    /\ mpc = "header"
    /\ numRecords = 0
    /\ recordOffsets = <<>>
    /\ compression = 0
    /\ textRecordCount = 0
    /\ mi = 0
    /\ allChunks = <<>>
    /\ totalLength = 0
    /\ finalBuffer = <<>>
    /\ mresult = NoResult
    /\ tried = <<>>

MobiRest == <<composeVars, duoVars, palmVars, extractVars, convertVars, buffer>>

\* lines 8-23: a read outside the buffer throws
MobiHeaderRangeError ==
    /\ mpc = "header"
    /\ ~ ReadHeader(buffer).ok
    /\ mresult' = [NoResult EXCEPT !.kind = "throw", !.err = "RangeError"]
    /\ mpc' = "done"
    /\ UNCHANGED <<MobiRest, numRecords, recordOffsets, compression,
                   textRecordCount, mi, allChunks, totalLength, finalBuffer,
                   tried>>

\* lines 25-27
MobiHeaderCountError ==
    /\ mpc = "header"
    /\ LET h == ReadHeader(buffer)
       IN  /\ h.ok
           /\ CountExceeds(h.textRecordCount, h.numRecords)
           /\ numRecords' = h.numRecords
           /\ recordOffsets' = h.recordOffsets
           /\ compression' = h.compression
           /\ textRecordCount' = h.textRecordCount
    /\ mresult' = [NoResult EXCEPT !.kind = "throw", !.err = "count"]
    /\ mpc' = "done"
    /\ UNCHANGED <<MobiRest, mi, allChunks, totalLength, finalBuffer, tried>>

\* lines 8-34: the header is read and the record loop starts at i = 1
MobiHeaderOk ==
    /\ mpc = "header"
    /\ LET h == ReadHeader(buffer)
       IN  /\ h.ok
           /\ ~ CountExceeds(h.textRecordCount, h.numRecords)
           /\ numRecords' = h.numRecords
           /\ recordOffsets' = h.recordOffsets
           /\ compression' = h.compression
           /\ textRecordCount' = h.textRecordCount
    /\ mi' = 1
    /\ mpc' = "records"
    /\ UNCHANGED <<MobiRest, allChunks, totalLength, finalBuffer, mresult, tried>>

\* line 35: break
MobiBreak ==
    /\ mpc = "records"
    /\ mi <= textRecordCount
    /\ mi >= Len(recordOffsets)
    /\ mpc' = "concat"
    /\ UNCHANGED <<MobiRest, numRecords, recordOffsets, compression,
                   textRecordCount, mi, allChunks, totalLength, finalBuffer,
                   mresult, tried>>

\* line 34: i <= textRecordCount is false
MobiLoopExit ==
    /\ mpc = "records"
    /\ mi > textRecordCount
    /\ mpc' = "concat"
    /\ UNCHANGED <<MobiRest, numRecords, recordOffsets, compression,
                   textRecordCount, mi, allChunks, totalLength, finalBuffer,
                   mresult, tried>>

\* the loop is at a record of the table
AtRecord ==
    /\ mpc = "records"
    /\ mi <= textRecordCount
    /\ mi < Len(recordOffsets)

\* line 40: continue
MobiSkip ==
    /\ AtRecord
    /\ Skipped(buffer, recordOffsets, mi)
    /\ mi' = mi + 1
    /\ UNCHANGED <<MobiRest, mpc, numRecords, recordOffsets, compression,
                   textRecordCount, allChunks, totalLength, finalBuffer,
                   mresult, tried>>

\* lines 42-61
MobiPush ==
    /\ AtRecord
    /\ ~ Skipped(buffer, recordOffsets, mi)
    /\ compression \in {1, 2}
    /\ LET decodedChunk == DecodeChunk(compression, Slice(buffer, recordOffsets, mi))
       IN  /\ allChunks' = PushChunk(allChunks, decodedChunk)
           /\ totalLength' = totalLength + Len(decodedChunk)
    /\ mi' = mi + 1
    /\ UNCHANGED <<MobiRest, mpc, numRecords, recordOffsets, compression,
                   textRecordCount, finalBuffer, mresult, tried>>

\* lines 51-58: the message is returned from inside the loop
MobiUnsupported ==
    /\ AtRecord
    /\ ~ Skipped(buffer, recordOffsets, mi)
    /\ compression \notin {1, 2}
    /\ mresult' = [NoResult EXCEPT !.kind = "unsupported"]
    /\ mpc' = "done"
    /\ UNCHANGED <<MobiRest, numRecords, recordOffsets, compression,
                   textRecordCount, mi, allChunks, totalLength, finalBuffer,
                   tried>>

\* lines 65-70: the chunks are copied into a buffer of totalLength bytes,
\* each at the offset where the one before ends
MobiConcat ==
    /\ mpc = "concat"
    /\ finalBuffer' = Cat(allChunks, 1, Len(allChunks))
    /\ mpc' = "utf-8"
    /\ UNCHANGED <<MobiRest, numRecords, recordOffsets, compression,
                   textRecordCount, mi, allChunks, totalLength, mresult, tried>>

\* lines 73-83: one decoder is tried; it returns the text or throws into
\* the catch block that tries the next
MobiTry(dec) ==
    /\ mpc = dec
    /\ tried' = Append(tried, dec)
    /\ IF Accepts(dec, finalBuffer)
       THEN /\ mresult' = [NoResult EXCEPT !.kind = "text", !.by = dec,
                                          !.bytes = finalBuffer]
            /\ mpc' = "done"
       ELSE /\ mresult' = mresult
            /\ mpc' = NextDecoder(dec)
    /\ UNCHANGED <<MobiRest, numRecords, recordOffsets, compression,
                   textRecordCount, mi, allChunks, totalLength, finalBuffer>>

MobiTryUtf8 == MobiTry("utf-8")
MobiTryGbk == MobiTry("gbk")
MobiTryPermissive == MobiTry("utf-8-lossy")

MobiNext ==
    \/ MobiHeaderRangeError
    \/ MobiHeaderCountError
    \/ MobiHeaderOk
    \/ MobiBreak
    \/ MobiLoopExit
    \/ MobiSkip
    \/ MobiPush
    \/ MobiUnsupported
    \/ MobiConcat
    \/ MobiTryUtf8
    \/ MobiTryGbk
    \/ MobiTryPermissive

SpecMobi == MobiInit /\ [][MobiNext]_vars

\* the text records of the file that line 40 lets through, and the k-th of
\* them in ascending order
Accepted(buf, h) ==
    {k \in 1..h.textRecordCount :
        k < h.numRecords /\ ~ Skipped(buf, h.recordOffsets, k)}
NthAccepted(buf, h, j) ==
    CHOOSE k \in Accepted(buf, h) :
        Cardinality({m \in Accepted(buf, h) : m < k}) = j - 1

\* the bytes have been handed to the text decoders
Handed == mpc \in Decoders \/ (mpc = "done" /\ mresult.kind = "text")

(* C15: the bytes handed to the text decoders are the decoded chunks of   *)
(* the accepted text records in ascending record index, one after the     *)
(* other; their number is the sum of the chunk lengths; and each chunk is *)
(* what decoding its own record's bytes alone gives, so decoding the      *)
(* records one call at a time or inside one pass of the parser gives the  *)
(* same bytes.                                                            *)
C15_ChunksInRecordOrder ==
    Handed =>
        LET h == ReadHeader(buffer)
            n == Cardinality(Accepted(buffer, h))
            alone == [j \in 1..n |->
                        DecodeChunk(h.compression,
                                    Slice(buffer, h.recordOffsets,
                                          NthAccepted(buffer, h, j)))]
        IN  /\ allChunks = alone
            /\ finalBuffer = Cat(alone, 1, n)
            /\ Len(finalBuffer) = totalLength
            /\ totalLength = Len(Cat([j \in 1..n |-> Zeros(Len(alone[j]))], 1, n))

\* two PalmDOC records, the second with a copy from one byte before its own
\* output: the byte of the first record is not what it copies
C15_Witness ==
    /\ mpc = "done"
    /\ mresult.kind = "text"
    /\ compression = 2
    /\ allChunks = <<<<65>>, <<65, 65, 65>>>>
    /\ mresult.bytes = <<65, 65, 65, 65>>

(* C16: parseMobi throws when the buffer is shorter than the header it    *)
(* reads, and whenever the slice of a declared text record ends past the  *)
(* end of the buffer; it never returns with such a record left out.       *)
C16_OutOfRangeRecordFails ==
    mpc = "done" =>
        LET h == ReadHeader(buffer)
        IN  /\ Len(buffer) < 78 => mresult.kind = "throw"
            /\ (/\ h.ok
                /\ \E k \in 1..h.textRecordCount :
                      /\ k < h.numRecords
                      /\ SliceEnd(buffer, h.recordOffsets, k) > Len(buffer))
                 => mresult.kind = "throw"

(* C17: when the text record count of record 0 is larger than the record  *)
(* count of the file, parseMobi throws and no chunk, no buffer and no     *)
(* text is produced.                                                      *)
C17_CountExceedsFails ==
    LET h == ReadHeader(buffer)
    IN  (mpc \notin {"idle", "header"} /\ h.ok /\ h.numRecords >= 1
           /\ h.textRecordCount > h.numRecords) =>
            /\ mpc = "done"
            /\ mresult = [NoResult EXCEPT !.kind = "throw", !.err = "count"]
            /\ allChunks = <<>>
            /\ finalBuffer = <<>>
            /\ tried = <<>>

C17_Witness ==
    /\ mpc = "done"
    /\ mresult.err = "count"
    /\ numRecords >= 2
    /\ textRecordCount = numRecords + 1
    /\ compression = 1

(* C18: a file whose compression id is neither 1 nor 2 makes parseMobi    *)
(* return the unsupported-compression message, whatever its number of     *)
(* text records, zero and skipped records included.                       *)
C18_UnsupportedAlwaysReported ==
    mpc = "done" =>
        LET h == ReadHeader(buffer)
        IN  (h.ok /\ h.numRecords >= 1 /\ h.textRecordCount <= h.numRecords
               /\ h.compression \notin {1, 2}) =>
                mresult.kind = "unsupported"

---------------------------------------------------------------------------
(* extractBookText (src/utils/textExtractor.ts) *)

\* longest text enumerated character by character
MaxBookLen == 3

BookChars == {"a", "<", ">", LF}
BookTexts == UNION {[1..n -> BookChars] : n \in 0..MaxBookLen}

\* the cases of the switch that call an extractor of this file, the cases
\* that call parseMobi, and a tag the switch does not know
Delegated == {"epub", "pdf", "fb2", "rtf"}
MobiFormats == {"mobi", "azw3"}
Formats == Delegated \cup MobiFormats \cup {"txt", "docx"}

\* the limit argument: left out, or a number of characters
Limits == {NoLimit} \cup {[supplied |-> TRUE, value |-> n] : n \in {0, 1, 2, 4}}

\* "... [Content Truncated]"
Marker ==
    <<".", ".", ".", " ", "[", "C", "o", "n", "t", "e", "n", "t", " ",
      "T", "r", "u", "n", "c", "a", "t", "e", "d", "]">>

\* s.replace(/<[^>]+>/g, "\n"), from index k on: a "<" with at least one
\* character before the next ">" is replaced, up to that ">", by a line feed
RECURSIVE StripTagsFrom(_, _)
StripTagsFrom(s, k) ==
    IF k > Len(s) THEN <<>>
    ELSE LET closers == {m \in (k + 1)..Len(s) : s[m] = ">"}
             close == CHOOSE m \in closers : \A o \in closers : m <= o
         IN  IF s[k] = "<" /\ closers # {} /\ close >= k + 2
             THEN <<LF>> \o StripTagsFrom(s, close + 1)
             ELSE <<s[k]>> \o StripTagsFrom(s, k + 1)

\* s.replace(/\n\s*\n/g, "\n\n"), from index k on: a line feed, the white
\* space after it and the last line feed of that white space become two
\* line feeds
RECURSIVE CollapseFrom(_, _)
CollapseFrom(s, k) ==
    IF k > Len(s) THEN <<>>
    ELSE LET ends == {m \in (k + 1)..Len(s) :
                         /\ s[m] = LF
                         /\ \A o \in (k + 1)..m : s[o] \in Whitespace}
             end == CHOOSE m \in ends : \A o \in ends : o <= m
         IN  IF s[k] = LF /\ ends # {}
             THEN <<LF, LF>> \o CollapseFrom(s, end + 1)
             ELSE <<s[k]>> \o CollapseFrom(s, k + 1)

\* line 37: what is kept of the string parseMobi returned
MobiText(mobiHtml) == trim(CollapseFrom(StripTagsFrom(mobiHtml, 1), 1))

\* the test of line 48 on limit alone: undefined and 0 are falsy
Truthy(l) == l.supplied /\ l.value # 0

ExtractInit ==
    /\ ComposeIdle
    /\ DuoIdle
    /\ PalmIdle
    /\ MobiIdle
    /\ ConvertIdle
    /\ \E f \in Formats :
          \E c \in IF f = "txt" THEN BookTexts ELSE {<<>>} :
              book = [format |-> f, content |-> c]
    /\ limit \in Limits
    /\ xpc = "switch"
    /\ fullText = <<>>
    /\ xresult = Pending
    /\ thrown = "none"

ExtractRest == <<composeVars, duoVars, palmVars, mobiVars, convertVars, book, limit>>

\* a catch block that throws the error on to the caller
CaughtRethrown == [kind |-> "rejected", text |-> <<>>]

\* lines 42-45: the catch block logs the error and returns ""
Caught == [kind |-> "resolved", text |-> <<>>]

\* lines 26-30: the content of a txt book is its text
ExtractTxt ==
    /\ xpc = "switch"
    /\ book.format = "txt"
    /\ fullText' = book.content
    /\ xpc' = "limit"
    /\ UNCHANGED <<ExtractRest, xresult, thrown>>

\* lines 14-25: the extractor of the format returns some text
ExtractDelegated ==
    /\ xpc = "switch"
    /\ book.format \in Delegated
    /\ \E t \in BookTexts : fullText' = t
    /\ xpc' = "limit"
    /\ UNCHANGED <<ExtractRest, xresult, thrown>>

\* lines 31-38: parseMobi returns some string, whose tags are taken out
ExtractMobi ==
    /\ xpc = "switch"
    /\ book.format \in MobiFormats
    /\ \E mobiHtml \in BookTexts : fullText' = MobiText(mobiHtml)
    /\ xpc' = "limit"
    /\ UNCHANGED <<ExtractRest, xresult, thrown>>

\* lines 42-45: what the extractor or parseMobi throws is caught
ExtractCalleeThrows ==
    /\ xpc = "switch"
    /\ book.format \in Delegated \cup MobiFormats
    /\ thrown' = "callee"
    /\ xresult' = Caught
    /\ xpc' = "done"
    /\ UNCHANGED <<ExtractRest, fullText>>

\* lines 39-45: the error of the default case is caught as well
ExtractDefault ==
    /\ xpc = "switch"
    /\ book.format \notin Delegated \cup MobiFormats \cup {"txt"}
    /\ thrown' = "default"
    /\ xresult' = Caught
    /\ xpc' = "done"
    /\ UNCHANGED <<ExtractRest, fullText>>

\* lines 48-50
ExtractTruncate ==
    /\ xpc = "limit"
    /\ Truthy(limit)
    /\ Len(fullText) > limit.value
    /\ xresult' = [kind |-> "resolved",
                   text |-> substring(fullText, 0, limit.value) \o Marker]
    /\ xpc' = "done"
    /\ UNCHANGED <<ExtractRest, fullText, thrown>>

\* line 52
ExtractReturn ==
    /\ xpc = "limit"
    /\ ~ (Truthy(limit) /\ Len(fullText) > limit.value)
    /\ xresult' = [kind |-> "resolved", text |-> fullText]
    /\ xpc' = "done"
    /\ UNCHANGED <<ExtractRest, fullText, thrown>>

ExtractNext ==
    \/ ExtractTxt
    \/ ExtractDelegated
    \/ ExtractMobi
    \/ ExtractCalleeThrows
    \/ ExtractDefault
    \/ ExtractTruncate
    \/ ExtractReturn

SpecExtract == ExtractInit /\ [][ExtractNext]_vars

(* C20: with a limit supplied, an extracted text longer than the limit is *)
(* returned as its first `limit` characters followed by the truncation    *)
(* marker; a text that is not longer, or any text when no limit is        *)
(* supplied, is returned unchanged; for every supplied limit value.       *)
C20_TruncatesAtEveryLimit ==
    (xpc = "done" /\ xresult.kind = "resolved") =>
        IF limit.supplied /\ Len(fullText) > limit.value
        THEN xresult.text = SubSeq(fullText, 1, limit.value) \o Marker
        ELSE xresult.text = fullText

(* C21: extractBookText called with a format tag outside the supported   *)
(* set rejects with the unsupported-format error; it resolves with no     *)
(* text for such a tag.                                                   *)
C21_UnknownFormatReachesCaller ==
    (xpc = "done" /\ book.format \notin Delegated \cup MobiFormats \cup {"txt"}) =>
        xresult.kind = "rejected"

(* C23: for epub, pdf, fb2 and rtf, whatever the extractor throws is      *)
(* caught inside extractBookText: the call resolves with the empty        *)
(* string, without the truncation marker, and never rejects.              *)
C23_DelegatedFailureCaught ==
    book.format \in Delegated =>
        /\ xresult.kind # "rejected"
        /\ thrown = "callee" =>
              /\ xpc = "done"
              /\ xresult = [kind |-> "resolved", text |-> <<>>]

\* the extractor of a pdf book has thrown, with a limit supplied
C23_Witness ==
    /\ book.format = "pdf"
    /\ thrown = "callee"
    /\ limit.supplied
    /\ limit.value = 1
    /\ xpc = "done"

---------------------------------------------------------------------------
(* handleConvert (src/components/ConverterView.tsx), with the call of     *)
(* extractBookText and of createPdfWithCanvas each taken as one step      *)

\* what an extractor or parseMobi may return
ConvertTexts == {<<>>, <<"a">>, <<"<", "a", ">", "a">>}

\* MOBI files: one text record "a"; the same with a text record count of 3
\* for 2 records; 40 bytes, too short for the record count; a PalmDOC record
ConvertFiles ==
    {Container(1, 1, <<<<97>>>>), Container(1, 3, <<<<97>>>>), Zeros(40),
     Container(2, 1, <<<<97, 128, 8>>>>)}

ConvertBooks ==
    {[format |-> "txt", content |-> c, buffer |-> <<>>] : c \in ConvertTexts}
      \cup {[format |-> f, content |-> <<>>, buffer |-> <<>>] :
               f \in Delegated \cup {"docx"}}
      \cup {[format |-> f, content |-> <<>>, buffer |-> b] :
               f \in MobiFormats, b \in ConvertFiles}

\* the limit handleConvert passes at line 167
ConvertLimit == [supplied |-> TRUE, value |-> 10000000]

\* a file left from an earlier conversion
OldFile == [offered |-> TRUE, ext |-> ".txt", text |-> <<"a">>]

\* parseMobi throws on the file: lines 8-27 of mobiParser.ts
ParseMobiThrows(buf) ==
    LET h == ReadHeader(buf)
    IN  ~ h.ok \/ CountExceeds(h.textRecordCount, h.numRecords)

\* lines 48-52 of textExtractor.ts
LimitResult(full, lim) ==
    IF Truthy(lim) /\ Len(full) > lim.value
    THEN substring(full, 0, lim.value) \o Marker
    ELSE full

Resolved(t) == [kind |-> "resolved", text |-> t]

\* what extractBookText(bk, lim) may settle with: the text of a txt book;
\* for a delegated format what the extractor returns, or the catch block
\* when it throws; for MOBI the catch block when parseMobi throws on the
\* bytes, and otherwise the stripped string it returns; the catch block for
\* any other tag
ExtractOutcomes(bk, lim) ==
    IF bk.format = "txt" THEN {Resolved(LimitResult(bk.content, lim))}
    ELSE IF bk.format \in Delegated
    THEN {Caught} \cup {Resolved(LimitResult(t, lim)) : t \in ConvertTexts}
    ELSE IF bk.format \in MobiFormats
    THEN IF ParseMobiThrows(bk.buffer) THEN {Caught}
         ELSE {Resolved(LimitResult(MobiText(h), lim)) : h \in ConvertTexts}
    ELSE {Caught}

ConvertInit ==
    /\ ComposeIdle
    /\ DuoIdle
    /\ PalmIdle
    /\ MobiIdle
    /\ ExtractIdle
    /\ selected \in {"none", "missing", "book"}
    /\ cbook \in ConvertBooks
    /\ targetFormat \in {"pdf", "txt"}
    /\ cctx \in BOOLEAN
    /\ cpc = "start"
    /\ resultText = <<>>
    /\ cresult \in {NoFile, OldFile}
    /\ alerts = <<>>
    /\ isConverting = FALSE
    /\ statusMessage = ""

ConvertRest ==
    <<composeVars, duoVars, palmVars, mobiVars, extractVars, selected, cbook,
      targetFormat, cctx>>

\* lines 156-158: nothing is selected, or the selected book is not there
ConvertReturnsEarly ==
    /\ cpc = "start"
    /\ selected # "book"
    /\ cpc' = "done"
    /\ UNCHANGED <<ConvertRest, resultText, cresult, alerts, isConverting,
                   statusMessage>>

\* lines 160-167, up to the await of extractBookText
ConvertBegin ==
    /\ cpc = "start"
    /\ selected = "book"
    /\ isConverting' = TRUE
    /\ cresult' = NoFile
    /\ statusMessage' = "Extracting text content..."
    /\ cpc' = "extract"
    /\ UNCHANGED <<ConvertRest, resultText, alerts>>

\* lines 167-169: extractBookText settles; a rejection goes to the catch
ConvertExtracted ==
    /\ cpc = "extract"
    /\ \E r \in ExtractOutcomes(cbook, ConvertLimit) :
          IF r.kind = "rejected"
          THEN /\ cpc' = "catch"
               /\ UNCHANGED <<resultText, statusMessage>>
          ELSE /\ resultText' = r.text
               /\ statusMessage' = "Generating file..."
               /\ cpc' = "generate"
    /\ UNCHANGED <<ConvertRest, cresult, alerts, isConverting>>

\* lines 174-176 and 182-183: the PDF is composed and offered
ConvertPdf ==
    /\ cpc = "generate"
    /\ targetFormat = "pdf"
    /\ cctx
    /\ cresult' = [offered |-> TRUE, ext |-> ".pdf", text |-> resultText]
    /\ cpc' = "finally"
    /\ UNCHANGED <<ConvertRest, resultText, alerts, isConverting, statusMessage>>

\* line 175: createPdfWithCanvas throws "Canvas init failed"
ConvertPdfThrows ==
    /\ cpc = "generate"
    /\ targetFormat = "pdf"
    /\ ~ cctx
    /\ cpc' = "catch"
    /\ UNCHANGED <<ConvertRest, resultText, cresult, alerts, isConverting,
                   statusMessage>>

\* lines 177-183: the text is offered as it is
ConvertTxt ==
    /\ cpc = "generate"
    /\ targetFormat # "pdf"
    /\ cresult' = [offered |-> TRUE, ext |-> ".txt", text |-> resultText]
    /\ cpc' = "finally"
    /\ UNCHANGED <<ConvertRest, resultText, alerts, isConverting, statusMessage>>

\* lines 185-187
ConvertCatch ==
    /\ cpc = "catch"
    /\ alerts' = Append(alerts, "Canvas init failed")
    /\ cpc' = "finally"
    /\ UNCHANGED <<ConvertRest, resultText, cresult, isConverting, statusMessage>>

\* lines 188-191
ConvertFinally ==
    /\ cpc = "finally"
    /\ isConverting' = FALSE
    /\ statusMessage' = ""
    /\ cpc' = "done"
    /\ UNCHANGED <<ConvertRest, resultText, cresult, alerts>>

ConvertNext ==
    \/ ConvertReturnsEarly
    \/ ConvertBegin
    \/ ConvertExtracted
    \/ ConvertPdf
    \/ ConvertPdfThrows
    \/ ConvertTxt
    \/ ConvertCatch
    \/ ConvertFinally

SpecConvert == ConvertInit /\ [][ConvertNext]_vars

(* C22: when parseMobi fails on a MOBI or AZW3 book (a file too short for *)
(* its header, a text record count above the record count), handleConvert *)
(* ends in its error branch: a message is shown and no result file is     *)
(* offered.                                                               *)
C22_MobiFailureFailsConversion ==
    (/\ cpc = "done"
     /\ selected = "book"
     /\ cbook.format \in MobiFormats
     /\ ParseMobiThrows(cbook.buffer)) =>
        /\ alerts # <<>>
        /\ ~ cresult.offered

---------------------------------------------------------------------------
(* parseMobi: the uncompressed path *)

\* the code points TextDecoder('utf-8') gives for bytes that are valid UTF-8
RECURSIVE Utf8Decode(_)
Utf8Decode(b) ==
    IF b = <<>> THEN <<>>
    ELSE LET x == b[1]
             n == IF x <= 127 THEN 1 ELSE IF x <= 223 THEN 2
                  ELSE IF x <= 239 THEN 3 ELSE 4
             lead == IF n = 1 THEN x ELSE IF n = 2 THEN x % 32
                     ELSE IF n = 3 THEN x % 16 ELSE x % 8
             cp == IF n = 1 THEN lead
                   ELSE IF n = 2 THEN (lead * 64) + (b[2] % 64)
                   ELSE IF n = 3 THEN (((lead * 64) + (b[2] % 64)) * 64) + (b[3] % 64)
                   ELSE (((((lead * 64) + (b[2] % 64)) * 64) + (b[3] % 64)) * 64)
                          + (b[4] % 64)
         IN  <<cp>> \o Utf8Decode(SubSeq(b, n + 1, Len(b)))

(* C24: with compression 1 and every declared text record 1..count        *)
(* having a slice inside the buffer, the bytes handed to the text         *)
(* decoders are the bytes of the file from each record's offset to the    *)
(* next record's offset, the last record of the table ending at the end   *)
(* of the buffer, one record after the other; a single record of ASCII    *)
(* bytes is returned as the text of those bytes.                          *)
C24_UncompressedIsRawBytes ==
    Handed =>
        LET h == ReadHeader(buffer)
            offs == h.recordOffsets
            n == h.textRecordCount
            to(k) == IF k = h.numRecords - 1 THEN Len(buffer) ELSE offs[k + 2]
            raw == [k \in 1..n |-> SubSeq(buffer, offs[k + 1] + 1, to(k))]
        IN  (/\ h.compression = 1
             /\ n < h.numRecords
             /\ \A k \in 1..n : offs[k + 1] < to(k) /\ to(k) <= Len(buffer)) =>
                /\ finalBuffer = Cat(raw, 1, n)
                /\ (mpc = "done" /\ n = 1 /\ \A j \in 1..Len(raw[1]) : raw[1][j] < 128) =>
                      /\ mresult.kind = "text"
                      /\ mresult.by = "utf-8"
                      /\ Utf8Decode(mresult.bytes) = raw[1]

\* two uncompressed records, the second ending where the file ends
C24_Witness ==
    /\ mpc = "done"
    /\ compression = 1
    /\ numRecords = 3
    /\ textRecordCount = 2
    /\ finalBuffer = <<65, 3, 65>>
    /\ mresult.by = "utf-8"
    /\ recordOffsets[3] + 2 = Len(buffer)

\* the offsets of the record table grow strictly and lie inside the buffer
OffsetsIncreasingInRange(buf, offs) ==
    /\ \A k \in 1..(Len(offs) - 1) : offs[k] < offs[k + 1]
    /\ \A k \in 1..Len(offs) : offs[k] < Len(buf)

(* C28: when parseMobi returns text for a file with compression 1 or 2    *)
(* and strictly increasing in-range offsets, it has decoded as many       *)
(* chunks as record 0 declares text records, for every declared count     *)
(* from 0 to the record count of the file.                                *)
C28_EveryDeclaredRecordDecoded ==
    (/\ mpc = "done"
     /\ mresult.kind = "text"
     /\ compression \in {1, 2}
     /\ OffsetsIncreasingInRange(buffer, recordOffsets)) =>
        Len(allChunks) = textRecordCount

(* C27: decompressPalmDOC ends on every record: each round of the loop    *)
(* moves the cursor forward by at least one byte and never beyond the end *)
(* of the record, and the call returns when the cursor is at the end; a   *)
(* lead byte 0x80..0xBF that is the last byte of the record ends the call *)
(* with the output as it was, and nothing is raised.                      *)
C27_CursorAdvances ==
    [][/\ (dpc = "loop" /\ pos < Len(data)) =>
            /\ pos' > pos
            /\ pos' <= Len(data)
            /\ dpc' \in {"loop", "done"}
       /\ (dpc = "loop" /\ pos >= Len(data)) =>
            /\ dpc' = "done"
            /\ output' = output
       /\ (dpc = "loop" /\ pos + 1 = Len(data)
             /\ data[pos + 1] >= 128 /\ data[pos + 1] <= 191) =>
            /\ dpc' = "done"
            /\ output' = output
      ]_vars

\* a record that ends in a lead byte, after some output
C27_Witness ==
    /\ last.op = "cut"
    /\ dpc = "done"
    /\ output # <<>>
    /\ pos = Len(data)

---------------------------------------------------------------------------
(* createPdfWithCanvas: the fit, the cursor and the work between yields *)

\* the largest prefix length of s whose measured width is at most w: what a
\* scan over the prefix lengths 0, 1, ... returns
LargestFit(s, w) ==
    CHOOSE n \in 0..Len(s) :
        /\ measureText(substring(s, 0, n)) <= w
        /\ \A m \in 0..Len(s) : measureText(substring(s, 0, m)) <= w => m <= n

(* C25: with a measured width that does not decrease as the prefix grows, *)
(* getFitIndex returns the full length when the whole text fits and       *)
(* otherwise the largest prefix length whose width is at most the maximum *)
(* width; every line drawn measures no more than the printable width.     *)
C25_FitIsLargestPrefix ==
    /\ (pc = "while" /\ p # <<>>) =>
          /\ measureText(p) <= printableWidth =>
                getFitIndex(p, printableWidth) = Len(p)
          /\ getFitIndex(p, printableWidth) = LargestFit(p, printableWidth)
    /\ \A k \in EvAt("draw") : measureText(trace[k].s) <= printableWidth

\* a line of the indent and two more characters has been drawn from a
\* paragraph that did not fit, and some of the paragraph is left
C25_Witness ==
    /\ pc = "while"
    /\ p # <<>>
    /\ IsLastEv("draw")
    /\ Len(trace[Len(trace)].s) = 6
    /\ getFitIndex(p, printableWidth) < Len(p)

(* C26 as claimed: whenever a line is about to be drawn or the function   *)
(* is suspended, margin <= cursorY <= pageHeight - margin.                *)
C26_CursorInsideAsClaimed ==
    ((pc = "while" /\ p # <<>>) \/ pc \in {"yieldFlush", "yieldCadence"}) =>
        (margin <= cursorY /\ cursorY <= pageHeight - margin)

(* C26 amended: every cursor advance is followed by the overflow test; a  *)
(* cursor beyond pageHeight - margin flushes exactly one page and the     *)
(* cursor is reset to the margin when flushPage returns; whenever a line  *)
(* is about to be drawn or the function is suspended at the paragraph     *)
(* cadence, margin <= cursorY <= pageHeight - margin, while during the    *)
(* suspension inside flushPage the cursor still holds the overflowing     *)
(* value.                                                                 *)
C26_CursorInsideWhenDrawing ==
    [][/\ (pc \in {"for", "while"} /\ cursorY' # cursorY) =>
            IF cursorY' > pageHeight - margin
            THEN /\ pc' = "yieldFlush"
                 /\ pageIndex' = pageIndex + 1
                 /\ Len(doc') \in {Len(doc), Len(doc) + 1}
                 /\ Len(doc'[Len(doc')]) = 1
                 /\ canvas' = <<>>
            ELSE /\ pc' # "yieldFlush"
                 /\ doc' = doc
                 /\ pageIndex' = pageIndex
       /\ pc = "yieldFlush" =>
            /\ cursorY > pageHeight - margin
            /\ cursorY' = margin
            /\ doc' = doc
       /\ pc' \in {"for", "while", "cadence", "yieldCadence", "incr", "final", "done"} =>
            (margin <= cursorY' /\ cursorY' <= pageHeight - margin)
      ]_vars

\* after a flush that a paragraph gap caused, a line is about to be drawn
\* at the top of the next page
C26_Witness ==
    /\ pc = "while"
    /\ p # <<>>
    /\ cursorY = margin
    /\ NumFlushes >= 1
    /\ \E k \in EvAt("flush") : k > 1 /\ trace[k - 1].ev = "gap"

(* C29: the page the terminal flush appends is not blank: something has   *)
(* been drawn on the canvas since the last intermediate flush.            *)
C29_LastPageNotBlank ==
    pc = "done" =>
        \A k \in 1..Len(doc[Len(doc)]) : doc[Len(doc)][k] # <<>>

\* the events of the history after the last yield
AfterLastYield ==
    LET ys == EvAt("yield")
        from == IF ys = {} THEN 0 ELSE CHOOSE k \in ys : \A m \in ys : m <= k
    IN  {k \in (from + 1)..Len(trace) : trace[k].ev \in {"draw", "blank", "gap"}}

(* C30: between two consecutive yields, and between the last yield and    *)
(* the terminal flush, at most 85 steps that advance the cursor (lines,   *)
(* blank lines, paragraph gaps) occur, whatever the length of the text;   *)
(* each such step advances the cursor by at least half a line height.     *)
C30_BoundedWorkBetweenYields ==
    [][/\ Cardinality(AfterLastYield') <= 85
       /\ (pc \in {"for", "while"} /\ cursorY' # cursorY) =>
             cursorY' >= cursorY + halfLine
      ]_vars

\* a page filled from the top margin: 43 advances since the last yield
C30_Witness ==
    /\ pc = "yieldFlush"
    /\ NumFlushes >= 2
    /\ Cardinality(AfterLastYield) = 43

====
